---- MODULE Spec2Model ----
(***************************************************************************)
(* A model of the slice-processing functions of glacier_mapping            *)
(* (glacier_mapping/data/process_slices_funs.py) and of the dataset        *)
(* classes (src/dataset.py).  Every function is one action of its own      *)
(* specification; reshuffle, whose partial effects on the filesystem are   *)
(* observable, is modelled statement by statement.                         *)
(***************************************************************************)
EXTENDS Integers, Sequences, FiniteSets, TLC

VARIABLES
    pc,             \* position of the call being modelled
    raised,         \* the exception that left the call, NoError when none
    ret,            \* the value the call returned, None before it returns
    entry,          \* the function that was called, "none" before the call
    slice_meta,     \* filter_directory: the metadata table, one record per slice
    filter_perc,    \* filter_directory: the coverage threshold, in tenths
    filter_channel, \* filter_directory: the mask channel filtered on
    ids,            \* random_split: the caller's id list (shuffled in place)
    split_ratio,    \* random_split: the three ratios, decimal fractions num[i]/den
    split_ids,      \* reshuffle: split name -> sequence of {img, mask} source paths
    src_files,      \* reshuffle: the source paths that exist
    dirs,           \* reshuffle: the split directories that exist under output_dir
    out_files,      \* reshuffle: the files present in the split directories
    copied,         \* reshuffle: the copies this call has made, in order
    calls,          \* reshuffle: how many times it has been called
    img,            \* the image array: pixel -> sequence of channel values
    mask,           \* the mask array: pixel -> sequence of channel values
    stats,          \* the stats file: [means, stds], one entry per channel
    divided,        \* normalize_: the channels it has divided by their std
    process_funs,   \* postprocess: the ordered mapping step name -> arguments
    called,         \* the functions called, in order
    dataset         \* the dataset object built by loader or by a constructor

commonVars  == <<pc, raised, ret, entry>>
filterVars  == <<slice_meta, filter_perc, filter_channel>>
splitVars   == <<ids, split_ratio>>
shuffleVars == <<split_ids, src_files, dirs, out_files, copied, calls>>
arrayVars   == <<img, mask, stats, divided>>
postVars    == <<process_funs, called>>
dataVars    == <<dataset>>

vars == <<commonVars, filterVars, splitVars, shuffleVars, arrayVars, postVars, dataVars>>

\* Python values, tagged so that values of different types can be compared.
None == <<"None">>
PyStr(s) == <<"str", s>>
PyBool(b) == <<"bool", b>>
PyInt(n) == <<"int", n>>
PyList(s) == <<"list", s>>
Value(v) == <<"value", v>>

NoError == [type |-> "None", arg |-> None]
Error(t, a) == [type |-> t, arg |-> a]

\* Before the call.
Start == pc = "start" /\ raised = NoError /\ ret = None /\ entry = "none"

\* The variables of the functions a specification does not call.
IdleFilter  == slice_meta = <<>> /\ filter_perc = 0 /\ filter_channel = 0
IdleSplit   == ids = <<>> /\ split_ratio = None
IdleShuffle ==
    /\ split_ids = None /\ src_files = {} /\ dirs = {} /\ out_files = {}
    /\ copied = <<>> /\ calls = 0
IdleArrays  == img = None /\ mask = None /\ stats = None /\ divided = {}
IdlePost    == process_funs = <<>> /\ called = <<>>
IdleData    == dataset = None

----------------------------------------------------------------------------
(* Sequences.                                                              *)

Reverse(s) == [i \in 1..Len(s) |-> s[Len(s) + 1 - i]]

Range(s) == {s[i] : i \in DOMAIN s}

Min(a, b) == IF a < b THEN a ELSE b
Max(a, b) == IF a > b THEN a ELSE b

\* All orders of the elements of the sequence s.
Permutations_(s) ==
    {[i \in DOMAIN s |-> s[p[i]]] :
        p \in {q \in [DOMAIN s -> DOMAIN s] : \A i, j \in DOMAIN s : q[i] = q[j] => i = j}}

----------------------------------------------------------------------------
(* float64 arithmetic, as numpy computes sizes and their cumulative sums.  *)
(* A value is m * 2^e with m a natural number held as its digits in base   *)
(* 2^LimbBits, least significant first (TLC's integers are too narrow for  *)
(* a 53-bit significand).  Every operation is exact and then rounded to    *)
(* Prec significant bits, ties to even.                                    *)

Prec == 53
LimbBits == 15
Base == 2^LimbBits
FracLimbs == 6

RECURSIVE NatToLimbs(_)
NatToLimbs(n) == IF n = 0 THEN <<>> ELSE <<n % Base>> \o NatToLimbs(n \div Base)

RECURSIVE LimbsToNat(_)
LimbsToNat(m) == IF m = <<>> THEN 0 ELSE Head(m) + Base * LimbsToNat(Tail(m))

\* m without its most significant zero limbs.
Trim(m) ==
    LET nz == {i \in DOMAIN m : m[i] # 0}
    IN  IF nz = {} THEN <<>> ELSE SubSeq(m, 1, CHOOSE i \in nz : \A j \in nz : j <= i)

RECURSIVE LAdd(_, _, _)
LAdd(a, b, carry) ==
    IF a = <<>> /\ b = <<>>
    THEN IF carry = 0 THEN <<>> ELSE <<carry>>
    ELSE LET x == IF a = <<>> THEN 0 ELSE Head(a)
             y == IF b = <<>> THEN 0 ELSE Head(b)
             t == x + y + carry
         IN  <<t % Base>> \o LAdd(IF a = <<>> THEN a ELSE Tail(a),
                                  IF b = <<>> THEN b ELSE Tail(b), t \div Base)

RECURSIVE LMulSmall(_, _, _)
LMulSmall(a, n, carry) ==
    IF a = <<>>
    THEN NatToLimbs(carry)
    ELSE LET t == n * Head(a) + carry
         IN  <<t % Base>> \o LMulSmall(Tail(a), n, t \div Base)

\* The number of bits of m: 0 for zero.
BitLen(m) ==
    LET t == Trim(m)
    IN  IF t = <<>> THEN 0
        ELSE (Len(t) - 1) * LimbBits
             + (CHOOSE k \in 1..LimbBits : 2^(k - 1) <= t[Len(t)] /\ t[Len(t)] < 2^k)

Limb(m, i) == IF i \in DOMAIN m THEN m[i] ELSE 0

\* m \div 2^k
ShiftRight(m, k) ==
    LET q == k \div LimbBits
        r == k % LimbBits
    IN  Trim([i \in 1..Max(Len(m) - q, 0) |->
                 (Limb(m, i + q) \div 2^r) + (Limb(m, i + q + 1) % 2^r) * 2^(LimbBits - r)])

\* m * 2^k
ShiftLeft(m, k) ==
    [i \in 1..(k \div LimbBits) |-> 0] \o LMulSmall(m, 2^(k % LimbBits), 0)

\* m % 2^k # 0
LowBitsSet(m, k) ==
    \/ \E i \in 1..(k \div LimbBits) : Limb(m, i) # 0
    \/ Limb(m, k \div LimbBits + 1) % 2^(k % LimbBits) # 0

\* Bit i of m, bit 0 the least significant.
Bit(m, i) == (Limb(m, i \div LimbBits + 1) \div 2^(i % LimbBits)) % 2

\* Round to nearest, ties to even, at Prec significant bits.
RoundNearestEven(v) ==
    LET n == BitLen(v.m)
    IN  IF n <= Prec
        THEN [m |-> Trim(v.m), e |-> v.e]
        ELSE LET drop == n - Prec
                 kept == ShiftRight(v.m, drop)
                 up   == Bit(v.m, drop - 1) = 1
                         /\ (LowBitsSet(v.m, drop - 1) \/ kept[1] % 2 = 1)
             IN  [m |-> IF up THEN LAdd(kept, <<1>>, 0) ELSE kept, e |-> v.e + drop]

Round(v) == RoundNearestEven(v)

\* The first n digits after the point of rem/d in base Base, most significant
\* first.
RECURSIVE FracDigits(_, _, _)
FracDigits(rem, d, n) ==
    IF n = 0 THEN <<>>
    ELSE <<(rem * Base) \div d>> \o FracDigits((rem * Base) % d, d, n - 1)

RECURSIVE FracRem(_, _, _)
FracRem(rem, d, n) == IF n = 0 THEN rem ELSE FracRem((rem * Base) % d, d, n - 1)

\* The float64 nearest to the decimal fraction k/d (a literal such as 0.6): the
\* quotient to FracLimbs digits, its last bit set when a remainder is left.
FromRatio(k, d) ==
    LET digits == Reverse(FracDigits(k % d, d, FracLimbs))
        sticky == IF FracRem(k % d, d, FracLimbs) # 0 /\ digits[1] % 2 = 0 THEN 1 ELSE 0
        low    == [digits EXCEPT ![1] = @ + sticky]
    IN  Round([m |-> low \o NatToLimbs(k \div d), e |-> 0 - FracLimbs * LimbBits])

\* n * v for an integer n >= 0.
FMul(n, v) == Round([m |-> LMulSmall(v.m, n, 0), e |-> v.e])

FAdd(u, v) ==
    LET e == Min(u.e, v.e)
    IN  Round([m |-> LAdd(ShiftLeft(u.m, u.e - e), ShiftLeft(v.m, v.e - e), 0), e |-> e])

\* int(x) for x >= 0: the fraction is dropped.
FTrunc(v) ==
    IF v.e >= 0
    THEN LimbsToNat(ShiftLeft(v.m, v.e))
    ELSE LimbsToNat(ShiftRight(v.m, 0 - v.e))

----------------------------------------------------------------------------
(* random_split                                                            *)

MaxIds == 3
RatioDen == 10

Ratios == {[num |-> <<a, b, c>>, den |-> RatioDen] : a, b, c \in 0..RatioDen}

RatioSum(r) == r.num[1] + r.num[2] + r.num[3]

\* ids[a:b] for a, b >= 0.
Slice(s, a, b) == SubSeq(s, Min(a, Len(s)) + 1, Min(b, Len(s)))

\* sizes = len(ids) * np.array(split_ratio)
Sizes(n, r) == [i \in 1..3 |-> FMul(n, FromRatio(r.num[i], r.den))]

\* np.cumsum(sizes)
CumSum(sz) ==
    LET c2 == FAdd(sz[1], sz[2])
    IN  <<sz[1], c2, FAdd(c2, sz[3])>>

\* ix = [int(s) for s in np.cumsum(sizes)]
CutIndices(n, r) == LET c == CumSum(Sizes(n, r)) IN [i \in 1..3 |-> FTrunc(c[i])]

\* The dev bucket starting one id early.
OverlappingBuckets(s, ix) ==
    [train |-> Slice(s, 0, ix[1]), dev |-> Slice(s, Max(ix[1] - 1, 0), ix[2]),
     test |-> Slice(s, ix[2], ix[3])]

Buckets(s, ix) ==
    [train |-> Slice(s, 0, ix[1]), dev |-> Slice(s, ix[1], ix[2]),
     test |-> Slice(s, ix[2], ix[3])]

InitSplit ==
    /\ Start
    /\ \E n \in 0..MaxIds : ids = [i \in 1..n |-> i]
    /\ split_ratio \in Ratios
    /\ IdleFilter /\ IdleShuffle /\ IdleArrays /\ IdlePost /\ IdleData

random_split ==
    /\ pc = "start"
    /\ LET ix == CutIndices(Len(ids), split_ratio)
       IN  \E shuffled \in Permutations_(ids) :
               /\ ids' = shuffled
               /\ ret' = Value(Buckets(shuffled, ix))
    /\ pc' = "done" /\ entry' = "random_split"
    /\ UNCHANGED <<raised, split_ratio, filterVars, shuffleVars, arrayVars, postVars, dataVars>>

NextSplit == random_split

SpecSplit == InitSplit /\ [][NextSplit]_vars

\* The returned buckets, and all their ids in bucket order.
SplitOf(r) == r[2]
AllSplit(r) == SplitOf(r).train \o SplitOf(r).dev \o SplitOf(r).test

\* C2: for distinct ids and ratios with r1+r2+r3 <= 1, the train, dev and test
\* lists random_split returns are pairwise disjoint, their lengths sum to at
\* most N, and their ids are ids of the input, none twice, whatever the shuffle.
C2_SplitDisjointWithinInput ==
    (pc = "done" /\ RatioSum(split_ratio) <= split_ratio.den) =>
        LET all == AllSplit(ret)
        IN  /\ Len(all) <= Len(ids)
            /\ \A i, j \in DOMAIN all : i # j => all[i] # all[j]
            /\ Range(all) \subseteq 1..Len(ids)

\* C2's case: a shuffled list cut into three non-empty buckets.
C2_Witness ==
    /\ pc = "done" /\ RatioSum(split_ratio) <= split_ratio.den
    /\ ids # [i \in 1..Len(ids) |-> i]
    /\ SplitOf(ret).train # <<>> /\ SplitOf(ret).dev # <<>> /\ SplitOf(ret).test # <<>>

\* Floor of the exact product n * k / d.
ExactFloor(n, k, d) == (n * k) \div d

\* Ratios whose sum exceeds 1, or that give no id to a split whose ratio is
\* positive.
Degenerate(n, r) ==
    \/ RatioSum(r) > r.den
    \/ r.num[1] > 0 /\ ExactFloor(n, r.num[1], r.den) = 0
    \/ r.num[2] > 0
       /\ ExactFloor(n, r.num[1] + r.num[2], r.den) = ExactFloor(n, r.num[1], r.den)
    \/ r.num[3] > 0
       /\ ExactFloor(n, RatioSum(r), r.den) = ExactFloor(n, r.num[1] + r.num[2], r.den)

\* C3: random_split called with degenerate ratios (their sum exceeds 1, or a
\* split with a positive ratio gets no id) ends in an error and returns no
\* split assignment.
C3_DegenerateRatiosRaise ==
    (pc = "done" /\ Degenerate(Len(ids), split_ratio)) =>
        (raised # NoError /\ ret = None)

\* C8: for ratios with sum <= 1 the buckets are the contiguous pieces of the
\* shuffled list cut at floor(N*r1), floor(N*(r1+r2)), floor(N*(r1+r2+r3)); when
\* the ratios sum to 1 the three sizes sum to N; 10 ids with (0.6, 0.2, 0.2)
\* are cut at 6 and 8 and 10.
C8_CutsAtFloorOfCumulativeRatios ==
    (pc = "done" /\ RatioSum(split_ratio) <= split_ratio.den) =>
        LET n  == Len(ids)
            k  == split_ratio.num
            d  == split_ratio.den
            b1 == ExactFloor(n, k[1], d)
            b2 == ExactFloor(n, k[1] + k[2], d)
            b3 == ExactFloor(n, k[1] + k[2] + k[3], d)
        IN  /\ SplitOf(ret).train = SubSeq(ids, 1, b1)
            /\ SplitOf(ret).dev = SubSeq(ids, b1 + 1, b2)
            /\ SplitOf(ret).test = SubSeq(ids, b2 + 1, b3)
            /\ RatioSum(split_ratio) = d => Len(AllSplit(ret)) = n
            /\ CutIndices(10, [num |-> <<6, 2, 2>>, den |-> 10]) = <<6, 8, 10>>

----------------------------------------------------------------------------
(* filter_directory                                                        *)

MaxRecords == 2

\* Coverage fractions and thresholds in tenths; image means.
Coverages == {1, 2, 3}
Thresholds == {1, 2}
ImgMeans == {-1, 0, 1}
MaskChannels == {0, 1}

\* Row i of the table: its paths, mask_mean_0 and mask_mean_1, img_mean.
SliceRecord(i, c) ==
    [img_slice |-> <<"img", i>>, mask_slice |-> <<"mask", i>>,
     mask_mean |-> <<c[1], c[2]>>, img_mean |-> c[3]]

Tables(n) ==
    {[i \in 1..n |-> SliceRecord(i, f[i])] :
        f \in [1..n -> Coverages \X Coverages \X ImgMeans]}

\* A threshold that lets the boundary through.
PassesCoverageInclusive(d, perc, channel) == d.mask_mean[channel + 1] >= perc

\* slice_meta[f"mask_mean_{filter_channel}"] > filter_perc
PassesCoverage(d, perc, channel) == d.mask_mean[channel + 1] > perc

\* slice_meta["img_mean"] > 0
PassesMean(d) == d.img_mean > 0

filter_directory(meta, perc, channel) ==
    LET Covered(d) == PassesCoverage(d, perc, channel)
        kept       == SelectSeq(SelectSeq(meta, Covered), PassesMean)
    IN  [i \in 1..Len(kept) |-> [img |-> kept[i].img_slice, mask |-> kept[i].mask_slice]]

InitFilter ==
    /\ Start
    /\ \E n \in 0..MaxRecords : slice_meta \in Tables(n)
    /\ filter_perc \in Thresholds
    /\ filter_channel \in MaskChannels
    /\ IdleSplit /\ IdleShuffle /\ IdleArrays /\ IdlePost /\ IdleData

CallFilterDirectory ==
    /\ pc = "start"
    /\ ret' = Value(filter_directory(slice_meta, filter_perc, filter_channel))
    /\ pc' = "done" /\ entry' = "filter_directory"
    /\ UNCHANGED <<raised, filterVars, splitVars, shuffleVars, arrayVars, postVars, dataVars>>

NextFilter == CallFilterDirectory

SpecFilter == InitFilter /\ [][NextFilter]_vars

\* The pair filter_directory returns for row i, and whether the row qualifies.
PairOf(i) == [img |-> slice_meta[i].img_slice, mask |-> slice_meta[i].mask_slice]
Qualifies(i) ==
    /\ slice_meta[i].mask_mean[filter_channel + 1] > filter_perc
    /\ slice_meta[i].img_mean > 0

----------------------------------------------------------------------------
(* Arrays and normalize_                                                   *)

MaxChannels == 2

\* A pixel value: a number n/d, or NaN.
NaN == <<"nan">>
Num(n) == <<"num", n, 1>>
Sub(x, m) == IF x = NaN THEN NaN ELSE <<"num", x[2] - m * x[3], x[3]>>
Div(x, s) == IF x = NaN THEN NaN ELSE <<"num", x[2], x[3] * s>>

\* The pixels of a 1 x 2 image, as (row, column).
Pixels == {<<0, 0>>, <<0, 1>>}

\* An array of shape [H, W, C]: ndim 3, and at every pixel its C values.  An
\* array of shape [H, W] has ndim 2 and one value at every pixel.
Array(nd, at) == [ndim |-> nd, at |-> at]
NumChannels(a) == Len(a.at[CHOOSE p \in Pixels : TRUE])

PixelValues == {Num(0), Num(3), NaN}
Images(c) == {Array(3, at) : at \in [Pixels -> [1..c -> PixelValues]]}
OnesMask == Array(3, [p \in Pixels |-> <<Num(1)>>])

\* A guard that lets a negative std divide.
StdNonZero(s) == s # 0

\* if stds[i] > 0
StdPositive(s) == s > 0

\* The body of normalize_'s loop for channel i.
NormalizeChannel(a, i, means, stds) ==
    Array(a.ndim,
          [p \in Pixels |->
              [a.at[p] EXCEPT ![i] = IF StdPositive(stds[i])
                                     THEN Div(Sub(@, means[i]), stds[i])
                                     ELSE Num(0)]])

RECURSIVE NormalizeFrom(_, _, _, _)
NormalizeFrom(a, i, means, stds) ==
    IF i > NumChannels(a) THEN a
    ELSE NormalizeFrom(NormalizeChannel(a, i, means, stds), i + 1, means, stds)

normalize_(a, means, stds) == NormalizeFrom(a, 1, means, stds)

\* The channels normalize_ divides by their std.
DividedChannels(a, stds) == {i \in 1..NumChannels(a) : StdPositive(stds[i])}

Means == {0, 1}
Stds == {-1, 0, 2}

InitNormalize ==
    /\ Start
    /\ \E c \in 1..MaxChannels :
           /\ img \in Images(c)
           /\ stats \in [means : [1..c -> Means], stds : [1..c -> Stds]]
    /\ mask = OnesMask
    /\ divided = {}
    /\ IdleFilter /\ IdleSplit /\ IdleShuffle /\ IdlePost /\ IdleData

\* normalize(img, mask, stats_path): img is normalized in place.
normalize ==
    /\ pc = "start"
    /\ img' = normalize_(img, stats.means, stats.stds)
    /\ divided' = DividedChannels(img, stats.stds)
    /\ ret' = Value(<<img', mask>>)
    /\ pc' = "done" /\ entry' = "normalize"
    /\ UNCHANGED <<raised, mask, stats, filterVars, splitVars, shuffleVars, postVars, dataVars>>

NextNormalize == normalize

SpecNormalize == InitNormalize /\ [][NextNormalize]_vars

\* y = (x - m) / s, for s > 0.
IsNormalized(y, x, m, s) ==
    IF x = NaN THEN y = NaN
    ELSE y # NaN /\ y[3] # 0 /\ y[2] * (x[3] * s) = (x[2] - m * x[3]) * y[3]

\* C5: normalize_ sets every channel whose std is 0 or negative to zero at
\* every pixel, whatever it held, without an error and without dividing by the
\* std; a channel with std > 0 becomes (x - mean) / std; normalize returns the
\* mask it was given.
C5_ZeroStdChannelZeroed ==
    [][(pc = "start" /\ pc' = "done") =>
          /\ raised' = NoError
          /\ ret'[2][2] = mask /\ mask' = mask
          /\ \A i \in 1..NumChannels(img), p \in Pixels :
                IF stats.stds[i] <= 0
                THEN ret'[2][1].at[p][i] = Num(0) /\ i \notin divided'
                ELSE IsNormalized(ret'[2][1].at[p][i], img.at[p][i],
                                  stats.means[i], stats.stds[i])]_vars

\* C5's case: a NaN-free channel of std 0 and a channel of negative std were
\* zeroed while a channel of positive std was divided.
C5_Witness ==
    /\ pc = "done" /\ entry = "normalize" /\ NumChannels(img) = 2
    /\ stats.stds[1] <= 0 /\ stats.means[1] # 0 /\ 1 \notin divided
    /\ stats.stds[2] > 0 /\ 2 \in divided
    /\ \A p \in Pixels : img.at[p][1] = Num(0)
    /\ \E p \in Pixels : img.at[p][2] = <<"num", 2, 2>>

----------------------------------------------------------------------------
(* reshuffle, statement by statement: the directories (lines 51-53), then  *)
(* one copyfile per step of the nested loops (lines 56-68), then the       *)
(* return (line 69).                                                       *)

MaxSamples == 2
MaxCalls == 2

\* The keys of split_ids, in the order random_split builds them.
SplitNames == <<"train", "dev", "test">>

\* Sample k's pair of source paths.
SamplePaths(k) == [img |-> <<"img", k>>, mask |-> <<"mask", k>>]
AllSources == {<<t, k>> : t \in {"img", "mask"}, k \in 1..MaxSamples}

\* The split assignment that puts sample k in split where[k], or in none.
Assignment(where) ==
    [name \in Range(SplitNames) |->
        LET In(k) == where[k] = name
            ks    == SelectSeq([k \in 1..MaxSamples |-> k], In)
        IN  [i \in 1..Len(ks) |-> SamplePaths(ks[i])]]

\* Path(output_dir, split_type, os.path.basename(source)).resolve()
Target(split, source) == <<split, source>>

\* The mask copied before the image.
MaskFirst == <<"mask", "img">>

\* for im_type in ["img", "mask"]
ImTypes == <<"img", "mask">>

\* The copies of one split, in loop order: entry by entry, one per im_type.
CopiesOf(sids, split) ==
    [j \in 1..(2 * Len(sids[split])) |->
        LET i == (j + 1) \div 2
            t == ImTypes[2 - (j % 2)]
        IN  [split |-> split, i |-> i, im_type |-> t, source |-> sids[split][i][t]]]

\* The copies of the whole call: for split_type in split_ids.
Copies(sids) ==
    CopiesOf(sids, SplitNames[1]) \o CopiesOf(sids, SplitNames[2])
        \o CopiesOf(sids, SplitNames[3])

\* os.makedirs(path, exist_ok=True)
ExistOk == TRUE

\* The directory loop: the directories after it, and the error it ended in.
RECURSIVE MakeDirs(_, _)
MakeDirs(ds, names) ==
    IF names = <<>> THEN [dirs |-> ds, err |-> NoError]
    ELSE IF Head(names) \in ds /\ ~ExistOk
         THEN [dirs |-> ds, err |-> Error("FileExistsError", PyStr(Head(names)))]
         ELSE MakeDirs(ds \cup {Head(names)}, Tail(names))

\* target_locs, as the loops have built it when they end.
TargetLocs(sids) ==
    [name \in Range(SplitNames) |->
        [i \in 1..Len(sids[name]) |->
            [img |-> Target(name, sids[name][i].img),
             mask |-> Target(name, sids[name][i].mask)]]]

InitShuffle ==
    /\ Start
    /\ \E where \in [1..MaxSamples -> Range(SplitNames) \cup {"none"}] :
           split_ids = Assignment(where)
    /\ src_files \in SUBSET AllSources
    /\ dirs = {} /\ out_files = {} /\ copied = <<>> /\ calls = 0
    /\ IdleFilter /\ IdleSplit /\ IdleArrays /\ IdlePost /\ IdleData

ShuffleFrame == <<split_ids, filterVars, splitVars, arrayVars, postVars, dataVars>>

\* Lines 51-53.
reshuffle_makedirs ==
    /\ pc = "start"
    /\ LET made == MakeDirs(dirs, SplitNames)
       IN  /\ dirs' = made.dirs
           /\ raised' = made.err
           /\ pc' = IF made.err = NoError THEN "copy" ELSE "raised"
    /\ calls' = calls + 1 /\ entry' = "reshuffle"
    /\ UNCHANGED <<ret, src_files, out_files, copied, ShuffleFrame>>

\* Line 65: copyfile(source, target) of the next copy.
reshuffle_copyfile ==
    /\ pc = "copy" /\ Len(copied) < Len(Copies(split_ids))
    /\ LET c == Copies(split_ids)[Len(copied) + 1]
       IN  IF c.source \in src_files
           THEN /\ out_files' = out_files \cup {Target(c.split, c.source)}
                /\ copied' = Append(copied, c)
                /\ UNCHANGED <<pc, raised>>
           ELSE /\ raised' = Error("FileNotFoundError", c.source)
                /\ pc' = "raised"
                /\ UNCHANGED <<out_files, copied>>
    /\ UNCHANGED <<ret, entry, src_files, dirs, calls, ShuffleFrame>>

\* Line 69.
reshuffle_return ==
    /\ pc = "copy" /\ Len(copied) = Len(Copies(split_ids))
    /\ ret' = Value(TargetLocs(split_ids))
    /\ pc' = "done"
    /\ UNCHANGED <<raised, entry, shuffleVars, filterVars, splitVars, arrayVars, postVars, dataVars>>

\* The caller runs reshuffle again on the same output directory, with the
\* source files as they are or with the missing ones restored.
CallAgain ==
    /\ pc \in {"done", "raised"} /\ calls < MaxCalls
    /\ pc' = "start" /\ raised' = NoError /\ ret' = None /\ entry' = "none"
    /\ copied' = <<>>
    /\ src_files' \in {src_files, AllSources}
    /\ UNCHANGED <<dirs, out_files, calls, ShuffleFrame>>

NextShuffle == reshuffle_makedirs \/ reshuffle_copyfile \/ reshuffle_return \/ CallAgain

SpecShuffle == InitShuffle /\ [][NextShuffle]_vars

\* The place of a copy in the order split by split, entry by entry, image
\* before mask.
SplitIndex(name) == CHOOSE k \in 1..3 : SplitNames[k] = name
RECURSIVE EntriesBefore(_)
EntriesBefore(k) == IF k = 1 THEN 0 ELSE EntriesBefore(k - 1) + Len(split_ids[SplitNames[k - 1]])
PlaceOf(split, i, t) ==
    2 * (EntriesBefore(SplitIndex(split)) + i - 1) + (IF t = "img" THEN 1 ELSE 2)
TotalCopies == 2 * EntriesBefore(4)

\* C7: reshuffle copies split by split, entry by entry, image before mask; a
\* missing source ends the call in the filesystem error with no mapping
\* returned, the files copied before it kept, none after it copied, and the
\* split directories in place; a call on existing split directories does not
\* fail on directory creation.
C7_CopiesInOrderNoRollback ==
    /\ \A j \in DOMAIN copied :
          /\ PlaceOf(copied[j].split, copied[j].i, copied[j].im_type) = j
          /\ copied[j].source = split_ids[copied[j].split][copied[j].i][copied[j].im_type]
          /\ Target(copied[j].split, copied[j].source) \in out_files
    /\ raised.type # "FileExistsError"
    /\ pc = "raised" =>
          /\ ret = None
          /\ raised.type = "FileNotFoundError" /\ raised.arg \notin src_files
          /\ \E name \in Range(SplitNames), i \in 1..MaxSamples, t \in {"img", "mask"} :
                /\ i <= Len(split_ids[name])
                /\ split_ids[name][i][t] = raised.arg
                /\ PlaceOf(name, i, t) = Len(copied) + 1
          /\ Range(SplitNames) \subseteq dirs
          /\ calls = 1 => out_files = {Target(c.split, c.source) : c \in Range(copied)}
    /\ pc = "done" => (Len(copied) = TotalCopies /\ ret # None)

\* C7's case: a second call on the existing directories stopped at a missing
\* mask, after it had copied that entry's image.
C7_Witness ==
    /\ pc = "raised" /\ calls = 2 /\ copied # <<>>
    /\ raised.arg[1] = "mask"
    /\ copied[Len(copied)].im_type = "img"

----------------------------------------------------------------------------
(* impute, extract_channel, postprocess_, postprocess_tile, postprocess    *)
(* The returned arrays are modelled; the caller's image, which normalize   *)
(* may also change in place, is left aside here (SpecNormalize has it).    *)

MaxSteps == 2

\* The names the module defines or imports: what getattr finds.
ModuleAttributes ==
    {"filter_directory", "random_split", "reshuffle", "generate_stats", "normalize_",
     "normalize", "impute", "extract_channel", "postprocess_tile", "postprocess_",
     "postprocess", "Path", "copyfile", "json", "os", "random", "sys", "np"}

\* np.nan_to_num(img, nan=value)
Impute(a, value) ==
    Array(a.ndim,
          [p \in Pixels |->
              [i \in DOMAIN a.at[p] |-> IF a.at[p][i] = NaN THEN Num(value) ELSE a.at[p][i]]])

Failed == [ok |-> FALSE, a |-> None]
Ok(a) == [ok |-> TRUE, a |-> a]

\* a[:, :, channels], channels counted from 0: an int drops the axis, a list
\* keeps it, None stands for np.arange(a.shape[2]).
Index(a, channels) ==
    IF a.ndim # 3 THEN Failed
    ELSE IF channels = None THEN Ok(a)
    ELSE IF channels[1] = "int"
         THEN IF channels[2] < NumChannels(a)
              THEN Ok(Array(2, [p \in Pixels |-> <<a.at[p][channels[2] + 1]>>]))
              ELSE Failed
         ELSE IF \A j \in DOMAIN channels[2] : channels[2][j] < NumChannels(a)
              THEN Ok(Array(3, [p \in Pixels |->
                                  [j \in DOMAIN channels[2] |-> a.at[p][channels[2][j] + 1]]]))
              ELSE Failed

\* mask = np.zeros((img.shape[0], img.shape[1], 1))
ZeroMask == Array(3, [p \in Pixels |-> <<Num(0)>>])

\* The state threaded through the steps: the pair, the error, the calls made.
Threaded(i, m) == [img |-> i, mask |-> m, err |-> NoError, called |-> <<>>]
Fail(st, t, a) == [st EXCEPT !.err = Error(t, a)]

RECURSIVE postprocess_(_, _)

\* f(img, mask, **fun_args) for the function getattr found.
CallStep(st, step) ==
    LET st1 == [st EXCEPT !.called = Append(@, step.name)]
    IN  CASE step.name = "normalize" ->
                 IF st.img.ndim # 3 THEN Fail(st1, "IndexError", PyStr("shape"))
                 ELSE [st1 EXCEPT !.img = normalize_(st.img, stats.means, stats.stds)]
          [] step.name = "impute" ->
                 [st1 EXCEPT !.img = Impute(st.img, step.args.value)]
          [] step.name = "extract_channel" ->
                 LET m == Index(st.mask, step.args.mask_channels)
                     i == Index(st.img, step.args.img_channels)
                 IN  IF m.ok /\ i.ok
                     THEN [st1 EXCEPT !.img = i.a, !.mask = m.a]
                     ELSE Fail(st1, "IndexError", PyStr("index"))
          [] step.name = "postprocess_" ->
                 postprocess_(st1, step.args.process_funs)
          [] step.name = "filter_directory" ->
                 \* slice_meta["mask_mean_1"] on an array
                 Fail(st1, "IndexError", PyStr("mask_mean"))
          [] OTHER -> Fail(st1, "TypeError", PyStr(step.name))

\* Lines 150-151: getattr(sys.modules[__name__], fun_name), then the call.
ApplyStep(st, step) ==
    IF step.name \in ModuleAttributes
    THEN CallStep(st, step)
    ELSE Fail(st, "AttributeError", PyStr(step.name))

\* for fun_name, fun_args in process_funs.items()
postprocess_(st, steps) ==
    IF steps = <<>> \/ st.err # NoError THEN st
    ELSE postprocess_(ApplyStep(st, Head(steps)), Tail(steps))

\* Line 141, process_funs.extract_channel.mask_channels = 0 on an addict Dict:
\* the step's argument is overwritten, or the step is created at the end.
SetMaskChannels(steps) ==
    IF \E i \in DOMAIN steps : steps[i].name = "extract_channel"
    THEN [i \in DOMAIN steps |->
             IF steps[i].name = "extract_channel"
             THEN [steps[i] EXCEPT !.args.mask_channels = PyInt(0)]
             ELSE steps[i]]
    ELSE Append(steps, [name |-> "extract_channel",
                        args |-> [mask_channels |-> PyInt(0), img_channels |-> None]])

ImputeStep == [name |-> "impute", args |-> [value |-> 0]]
StepPool ==
    {[name |-> "normalize", args |-> [stats_path |-> "stats.json"]], ImputeStep}
    \cup {[name |-> "extract_channel", args |-> [mask_channels |-> mc, img_channels |-> ic]] :
            mc \in {None, PyInt(0), PyList(<<0>>)}, ic \in {None, PyList(<<1>>)}}
    \cup {[name |-> "postprocess_", args |-> [process_funs |-> n]] : n \in {<<>>, <<ImputeStep>>}}
    \cup {[name |-> "filter_directory", args |-> [filter_channel |-> 1]],
          [name |-> "extract_channels", args |-> [img_channels |-> None]]}

\* The ordered mappings of at most MaxSteps steps: no name twice.
Specs(n) ==
    {f \in [1..n -> StepPool] : \A i, j \in 1..n : f[i].name = f[j].name => i = j}

PostImages ==
    {Array(3, [p \in Pixels |-> <<Num(3), x>>]) : x \in {Num(0), NaN}}

InitPost ==
    /\ Start
    /\ \E n \in 0..MaxSteps : process_funs \in Specs(n)
    /\ img \in PostImages
    /\ mask = OnesMask
    /\ stats = [means |-> <<1, 0>>, stds |-> <<2, 0>>]
    /\ divided = {} /\ called = <<>>
    /\ IdleFilter /\ IdleSplit /\ IdleShuffle /\ IdleData

PostFrame == <<img, mask, stats, divided, filterVars, splitVars, shuffleVars, dataVars>>

Returned(st) == IF st.err = NoError THEN Value(<<st.img, st.mask>>) ELSE None

postprocess_tile ==
    /\ pc = "start"
    /\ process_funs' = SetMaskChannels(process_funs)
    /\ LET st == postprocess_(Threaded(img, ZeroMask), process_funs')
       IN  ret' = Returned(st) /\ raised' = st.err /\ called' = st.called
    /\ pc' = "done" /\ entry' = "postprocess_tile"
    /\ UNCHANGED PostFrame

\* postprocess(img_path, mask_path, process_funs) on the arrays the paths hold.
postprocess ==
    /\ pc = "start"
    /\ LET st == postprocess_(Threaded(img, mask), process_funs)
       IN  ret' = Returned(st) /\ raised' = st.err /\ called' = st.called
    /\ pc' = "done" /\ entry' = "postprocess"
    /\ UNCHANGED <<process_funs, PostFrame>>

NextPost == postprocess_tile \/ postprocess

SpecPost == InitPost /\ [][NextPost]_vars

\* The fixed registry of processing steps.
Registry == {"normalize", "impute", "extract_channel"}

\* C4: a spec with a step name outside the registry is rejected with an error
\* that names it: nothing is returned, no function of the module is run under
\* that name, and the error is the unknown-step error for the name unless an
\* earlier step of the spec had already failed.
C4_UnknownStepRejected ==
    (pc = "done" /\ \E i \in DOMAIN process_funs : process_funs[i].name \notin Registry) =>
        LET first == CHOOSE i \in DOMAIN process_funs :
                         /\ process_funs[i].name \notin Registry
                         /\ \A j \in 1..(i - 1) : process_funs[j].name \in Registry
            name  == process_funs[first].name
        IN  /\ ret = None
            /\ name \notin Range(called)
            /\ \/ raised = Error("AttributeError", PyStr(name))
               \/ raised # NoError /\ Len(called) < first

\* Two specs with the same steps in the same order with the same arguments.
SameSpec(a, b) ==
    /\ Len(a) = Len(b)
    /\ \A i \in DOMAIN a : a[i].name = b[i].name /\ a[i].args = b[i].args

\* C9: postprocess_tile returns what postprocess_ returns for the image, a zero
\* mask of shape [H, W, 1] and the spec as the caller configured it, and leaves
\* the spec with the same steps and the same arguments.
C9_TileRunsConfiguredSpec ==
    [][(pc = "start" /\ entry' = "postprocess_tile") =>
          LET st == postprocess_(Threaded(img, ZeroMask), process_funs)
          IN  /\ ret' = Returned(st)
              /\ raised' = st.err
              /\ SameSpec(process_funs', process_funs)]_vars

----------------------------------------------------------------------------
(* GlacierDataset, AugmentedGlacierDataset, loader                         *)
(* A sample is described by the columns of the row its image and mask were *)
(* loaded from, the mask derivation applied, and the geometric transforms  *)
(* called and applied to each of the two arrays.                           *)

Modes == {"train", "dev", "test"}
MaskVariants == {"glacier", "actual_debris", "debris_glaciers", "multi_class_glaciers"}

\* Python's `a and b`, `a == b` and truth value, on tagged values.
Truthy(v) == IF v[1] = "bool" THEN v[2] ELSE v[2] # ""
PyAnd(a, b) == IF Truthy(a) THEN b ELSE a
PyEq(a, b) == a = b

\* The object __init__ leaves: the fields __getitem__ reads.
Dataset(cls, mode, mask_used, use_cropped, augment) ==
    Value([cls |-> cls, mode |-> mode, mask_used |-> mask_used,
           use_cropped |-> use_cropped, augment |-> augment])

\* Lines 55-57: the mask column of the row.
MaskColumn(d) ==
    IF PyEq(PyStr(d.mask_used), PyStr("actual_debris"))
    THEN "actual_debris_mask_path" ELSE "mask_path"

\* Lines 64-68: the cropped label column of the row.
CroppedLabelColumn(d) ==
    IF PyEq(PyStr(d.mask_used), PyStr("actual_debris"))
    THEN "actual_debris_cropped_label"
    ELSE IF PyEq(PyStr(d.mask_used),
                 PyAnd(PyStr("debris_glaciers"), PyBool(d.mode # "train")))
         THEN "actual_debris_cropped_label"
         ELSE "cropped_label"

\* Lines 101-104: the mask derivation.
Derivation(d) ==
    IF d.mask_used = "debris_glaciers" /\ d.mode = "train" THEN "get_debris_glaciers"
    ELSE IF d.mask_used = "multi_class_glaciers" THEN "merge_mask_snow_i"
    ELSE "none"

\* GlacierDataset.__getitem__
GlacierGetItem(d) ==
    [image_file |-> IF d.use_cropped THEN "cropped_path" ELSE "img_path",
     mask_file  |-> IF d.use_cropped THEN CroppedLabelColumn(d) ELSE MaskColumn(d),
     derived    |-> Derivation(d),
     calls      |-> <<>>, img_ops |-> <<>>, mask_ops |-> <<>>]

\* TA.rotate(img, mask, rot, p) and TA.flip(img, mask, axis, p): called, and
\* when the draw hits applied to the image and to the mask alike.
Transform(s, name, hit) ==
    [s EXCEPT !.calls = Append(@, name),
              !.img_ops = IF hit THEN Append(@, name) ELSE @,
              !.mask_ops = IF hit THEN Append(@, name) ELSE @]
Rotate(s, hit) == Transform(s, "rotate", hit)
Flip(s, axis, hit) == Transform(s, IF axis = 0 THEN "flip0" ELSE "flip1", hit)

\* The horizontal flip before the vertical one.
augment_img_flips_swapped(s, hits) ==
    Flip(Flip(Rotate(s, hits[1]), 1, hits[3]), 0, hits[2])

\* AugmentedGlacierDataset.augment_img; hits are the three random draws.
augment_img(s, hits) ==
    Flip(Flip(Rotate(s, hits[1]), 0, hits[2]), 1, hits[3])

\* AugmentedGlacierDataset.__getitem__
AugmentedGetItem(d, hits) ==
    IF d.augment THEN augment_img(GlacierGetItem(d), hits) ELSE GlacierGetItem(d)

InitData ==
    /\ Start
    /\ dataset = None
    /\ IdleFilter /\ IdleSplit /\ IdleShuffle /\ IdleArrays /\ IdlePost

DataFrame == <<raised, ret, filterVars, splitVars, shuffleVars, arrayVars, postVars>>

\* Lines 162-165: loader leaves use_cropped at its default.
loader ==
    /\ pc = "start"
    /\ \E mode \in Modes, mask_used \in MaskVariants, augment \in BOOLEAN :
           dataset' = IF mode = "train"
                      THEN Dataset("AugmentedGlacierDataset", mode, mask_used, TRUE, augment)
                      ELSE Dataset("GlacierDataset", mode, mask_used, TRUE, FALSE)
    /\ pc' = "built" /\ entry' = "loader"
    /\ UNCHANGED DataFrame

\* GlacierDataset(...) called directly.
NewGlacierDataset ==
    /\ pc = "start"
    /\ \E mode \in Modes, mask_used \in MaskVariants, use_cropped \in BOOLEAN :
           dataset' = Dataset("GlacierDataset", mode, mask_used, use_cropped, FALSE)
    /\ pc' = "built" /\ entry' = "GlacierDataset"
    /\ UNCHANGED DataFrame

\* AugmentedGlacierDataset(..., augment=...) called directly.
NewAugmentedGlacierDataset ==
    /\ pc = "start"
    /\ \E mode \in Modes, mask_used \in MaskVariants, use_cropped \in BOOLEAN,
          augment \in BOOLEAN :
           dataset' = Dataset("AugmentedGlacierDataset", mode, mask_used, use_cropped, augment)
    /\ pc' = "built" /\ entry' = "AugmentedGlacierDataset"
    /\ UNCHANGED DataFrame

\* dataset[i]
getitem ==
    /\ pc = "built"
    /\ IF dataset[2].cls = "AugmentedGlacierDataset"
       THEN \E hits \in [1..3 -> BOOLEAN] : ret' = Value(AugmentedGetItem(dataset[2], hits))
       ELSE ret' = Value(GlacierGetItem(dataset[2]))
    /\ pc' = "done"
    /\ UNCHANGED <<raised, entry, dataset, filterVars, splitVars, shuffleVars, arrayVars, postVars>>

NextData == loader \/ NewGlacierDataset \/ NewAugmentedGlacierDataset \/ getitem

SpecData == InitData /\ [][NextData]_vars

\* C6: with mask variant debris_glaciers and cropped paths, the mask of a dev or
\* test sample is loaded from actual_debris_cropped_label and the mask of a
\* train sample from cropped_label.
C6_EvalSplitsUseActualDebrisLabel ==
    (pc = "done" /\ dataset[2].mask_used = "debris_glaciers" /\ dataset[2].use_cropped) =>
        ret[2].mask_file = IF dataset[2].mode = "train"
                           THEN "cropped_label" ELSE "actual_debris_cropped_label"

GeometricOrder == <<"rotate", "flip0", "flip1">>
OrderOf(name) == CHOOSE k \in 1..3 : GeometricOrder[k] = name

\* C10: with augment enabled AugmentedGlacierDataset.__getitem__ calls rotate,
\* the flip of axis 0 and the flip of axis 1 in that order, and the image and
\* the mask receive the same transforms; with augment disabled, and for every
\* dataset loader builds for a mode other than train, they receive none.
C10_AugmentationPairedAndOrdered ==
    pc = "done" =>
        LET s == ret[2]
            d == dataset[2]
            on == d.cls = "AugmentedGlacierDataset" /\ d.augment
        IN  /\ s.img_ops = s.mask_ops
            /\ \A j, k \in DOMAIN s.img_ops :
                  j < k => OrderOf(s.img_ops[j]) < OrderOf(s.img_ops[k])
            /\ on => s.calls = GeometricOrder
            /\ ~on => (s.calls = <<>> /\ s.img_ops = <<>> /\ s.mask_ops = <<>>)
            /\ (entry = "loader" /\ d.mode # "train") =>
                  (s.calls = <<>> /\ s.img_ops = <<>> /\ s.mask_ops = <<>>)

\* C10's case: a training sample from loader that was rotated and flipped on
\* both axes.
C10_Witness ==
    /\ pc = "done" /\ entry = "loader" /\ dataset[2].augment
    /\ ret[2].img_ops = GeometricOrder /\ ret[2].mask_ops = GeometricOrder

====
